---- MODULE Spec2Model ----
(***************************************************************************)
(* Model of ansys.mapdl.reader.cell_quality.quality(grid): the caller-side *)
(* wrapper around the native minimum-scaled-Jacobian kernel.               *)
(*                                                                         *)
(* One call of quality() is modelled as a small state machine over a heap  *)
(* of arrays.  Python names are references: `grid`, `points`, `qual` hold  *)
(* addresses into `heap`, so that aliasing (the caller's arrays versus the *)
(* copies made by cast_to_unstructured_grid, astype and the kernel) is     *)
(* visible.  Quality values are fixed-point integers: Scale stands for 1.0.*)
(***************************************************************************)
EXTENDS Integers, Sequences, FiniteSets, TLC

\* ---------------------------------------------------------------- bounds
\* largest number of cells of a generated input grid
MaxCells == 2
\* fixed-point resolution of a quality value: Scale represents 1.0
Scale == 10

\* ------------------------------------------- the docstring example's data
\* np.arange(-10, 10, 5) of the docstring example
ArangeStart == -10
ArangeStop == 10
ArangeStep == 5

\* number of elements of np.arange(start, stop, step), step > 0
ArangeLen(start, stop, step) ==
    IF stop <= start THEN 0 ELSE ((stop - start) + step - 1) \div step

\* cells of the StructuredGrid built from meshgrid(x, y, z) of three such axes
ExampleCells ==
    LET n == ArangeLen(ArangeStart, ArangeStop, ArangeStep)
    IN  (n - 1) * (n - 1) * (n - 1)

\* ------------------------------------------------------------ the inputs
\* what the caller may pass as `grid`
PvStructured == "StructuredGrid"
PvUnstructured == "UnstructuredGrid"
Kinds ==
    {PvStructured, PvUnstructured, "vtkUnstructuredGrid", "vtkStructuredGrid",
     "ndarray", "None", "str"}
\* the inputs that carry point / cell arrays
GridKinds ==
    {PvStructured, PvUnstructured, "vtkUnstructuredGrid", "vtkStructuredGrid"}
StructuredKinds == {PvStructured, "vtkStructuredGrid"}

\* point dtypes a VTK point array can carry
DTypes == {"float64", "float32", "int64"}
\* storage width of a dtype, in bits
Bits(d) == IF d = "float32" THEN 32 ELSE 64

\* VTK topology codes: 0 empty, 3 line, 5 triangle, 9 quad, 10 tetra,
\* 12 hexahedron, 13 wedge, 14 pyramid
VTK_EMPTY_CELL == 0
SupportedTypes == {0, 3, 5, 9, 10, 12, 13, 14}
\* 1 is VTK_VERTEX, a code outside the supported set
UnsupportedTypes == {1}
\* a structured grid flattens to hexahedra (12), a blanked cell to an empty cell
StructuredTypes == {VTK_EMPTY_CELL, 12}

\* geometry of one cell, as the class of its node coordinates
Shapes == {"regular", "mirrored", "skewed"}

\* nodes of a cell of topology code t
NodeCount(t) ==
    CASE t = 0 -> 0
      [] t = 1 -> 1
      [] t = 3 -> 2
      [] t = 5 -> 3
      [] t = 9 -> 4
      [] t = 10 -> 4
      [] t = 12 -> 8
      [] t = 13 -> 6
      [] t = 14 -> 5
      [] OTHER -> 0

\* offset buffer: start position of each cell in the connectivity buffer
RECURSIVE Offsets(_, _)
Offsets(types, from) ==
    IF types = <<>> THEN <<>>
    ELSE <<from>> \o Offsets(Tail(types), from + NodeCount(Head(types)))

\* an array on the heap
Array(dtype, data) == [dtype |-> dtype, data |-> data]

\* the three arrays of a grid: points (one geometry class per cell),
\* cell types, offsets
GridArrays(dtype, types, shapes) ==
    << Array(dtype, shapes), Array("uint8", types), Array("int64", Offsets(types, 0)) >>

\* a grid object: its kind and the addresses of its arrays (0: no array)
GridObject(kind, base) ==
    [kind |-> kind, points |-> base + 1, celltypes |-> base + 2, offset |-> base + 3]
NoArrays(kind) == [kind |-> kind, points |-> 0, celltypes |-> 0, offset |-> 0]

VARIABLES
    heap,     \* the arrays, by address
    input,    \* the object the caller passed (never rebound)
    grid,     \* local `grid`
    flip,     \* local `flip`
    points,   \* local `points`: address of the array handed to the kernel
    qual,     \* local `qual`: address of the kernel's output, 0 before
    ret,      \* address of the returned array, 0 while none
    exc,      \* the exception the call ended with, "none" while none
    calls,    \* log of kernel invocations
    pc,       \* position in quality()
    before    \* the caller's object and arrays as they were when quality() was called

vars == <<heap, input, grid, flip, points, qual, ret, exc, calls, pc, before>>

\* the topology codes a grid of the given kind can hold
TypesOf(k) ==
    IF k \in StructuredKinds THEN StructuredTypes
    ELSE SupportedTypes \cup UnsupportedTypes

\* the state when quality(grid) is entered with a grid of kind k whose
\* points have dtype d and whose cells have codes t and geometry s
Entered(k, d, t, s) ==
    /\ heap = IF k \in GridKinds THEN GridArrays(d, t, s) ELSE <<>>
    /\ input = IF k \in GridKinds THEN GridObject(k, 0) ELSE NoArrays(k)
    /\ grid = input
    /\ flip = FALSE
    /\ points = 0
    /\ qual = 0
    /\ ret = 0
    /\ exc = "none"
    /\ calls = <<>>
    /\ pc = "start"
    /\ before = [obj |-> input, arrays |-> heap]

\* the generated inputs: every grid of at most MaxCells cells
SmallGrid ==
    \E k \in GridKinds, n \in 0..MaxCells, d \in DTypes :
        \E t \in [1..n -> TypesOf(k)], s \in [1..n -> Shapes] :
            Entered(k, d, t, s)

\* the inputs that are no grid at all
NoGrid == \E k \in Kinds \ GridKinds : Entered(k, "float64", <<>>, <<>>)

\* the docstring example: pv.StructuredGrid over meshgrid of three integer
\* aranges, a uniform axis-aligned grid of ExampleCells hexahedra; its
\* cells are regular, scoring +1 in the kernel (section 8 of the
\* specification: all +1 before the sign flip)
DocExample ==
    Entered(PvStructured, "int64", [i \in 1..ExampleCells |-> 12],
            [i \in 1..ExampleCells |-> "regular"])

Init == SmallGrid \/ NoGrid \/ DocExample

\* ------------------------------------------------- external collaborators
\* StructuredGrid.cast_to_unstructured_grid(): a new UnstructuredGrid whose
\* arrays are copies; the caller's object keeps its own
cast_to_unstructured_grid(g, h) ==
    [ obj  |-> GridObject(PvUnstructured, Len(h)),
      heap |-> h \o << h[g.points], h[g.celltypes], h[g.offset] >> ]

\* pv.wrap(): a pyvista object over the same arrays (no copy) for a VTK data
\* object, PolyData for an ndarray, None for None; an object it cannot wrap
\* makes it raise NotImplementedError
wrap(g) ==
    CASE g.kind = "vtkUnstructuredGrid" ->
            [raised |-> FALSE, exc |-> "none", obj |-> [g EXCEPT !.kind = PvUnstructured]]
      [] g.kind = "vtkStructuredGrid" ->
            [raised |-> FALSE, exc |-> "none", obj |-> [g EXCEPT !.kind = PvStructured]]
      [] g.kind = "ndarray" ->
            [raised |-> FALSE, exc |-> "none", obj |-> NoArrays("PolyData")]
      [] g.kind = "str" ->
            [raised |-> TRUE, exc |-> "NotImplementedError", obj |-> g]
      [] OTHER ->
            [raised |-> FALSE, exc |-> "none", obj |-> g]

\* vtk_cell_info(grid): the grid's connectivity layout, here its offset array
vtk_cell_info(g) == g.offset

\* ndarray.astype(np.float64): a new array, the source is left alone
astype(a, dtype) == Array(dtype, a.data)

\* ---------------------------------------------------------- the kernel
\* minimum scaled Jacobian of a cell of the given geometry class
ShapeValue(shape) ==
    CASE shape = "regular" -> Scale
      [] shape = "mirrored" -> -Scale
      [] OTHER -> Scale \div 2

\* a line has no Jacobian sign: quality 1
CellQuality(t, shape) == IF t = 3 THEN Scale ELSE ShapeValue(shape)

\* what the per-cell path may leave in the slot of a null cell: 1 when the
\* early return fires, otherwise whatever the slot or the cell's garbage
\* coordinates give
NullSlotValues == {Scale, 0, 2 * Scale}

\* the values the kernel may produce for one cell
CellValues(t, shape) ==
    IF t = VTK_EMPTY_CELL THEN NullSlotValues ELSE {CellQuality(t, shape)}

\* the possible outputs of a pass over all cells: one value per cell, in
\* cell order
RECURSIVE KernelOutputs(_, _)
KernelOutputs(types, shapes) ==
    IF types = <<>> THEN { <<>> }
    ELSE { <<v>> \o rest : v \in CellValues(Head(types), Head(shapes)),
                           rest \in KernelOutputs(Tail(types), Tail(shapes)) }

\* the outcomes of one kernel call: an error when a cell's code is outside
\* the supported set, else one of the possible outputs
KernelOutcomes(types, shapes) ==
    IF \E i \in 1..Len(types) : types[i] \notin SupportedTypes
    THEN { [raised |-> TRUE, out |-> <<>>] }
    ELSE { [raised |-> FALSE, out |-> q] : q \in KernelOutputs(types, shapes) }

\* ------------------------------------------------------------ quality()
\* lines 38-45 with the conditions in another order: wrap first, then
\* flatten whatever turned out structured
Coerced_WrapFirst(g, h) ==
    LET w == IF g.kind \in {PvStructured, PvUnstructured}
             THEN [raised |-> FALSE, exc |-> "none", obj |-> g]
             ELSE wrap(g)
    IN  IF w.raised
        THEN [grid |-> g, heap |-> h, flip |-> FALSE, exc |-> w.exc]
        ELSE IF w.obj.kind = PvStructured
        THEN LET c == cast_to_unstructured_grid(w.obj, h) IN
             [grid |-> c.obj, heap |-> c.heap, flip |-> TRUE, exc |-> "none"]
        ELSE IF w.obj.kind # PvUnstructured
        THEN [grid |-> w.obj, heap |-> h, flip |-> FALSE, exc |-> "TypeError"]
        ELSE [grid |-> w.obj, heap |-> h, flip |-> FALSE, exc |-> "none"]

\* lines 38-45: flatten a pyvista StructuredGrid and remember it in flip,
\* wrap a foreign object, reject what does not wrap to an UnstructuredGrid
Coerced(g, h) ==
    IF g.kind = PvStructured
    THEN LET c == cast_to_unstructured_grid(g, h) IN
         [grid |-> c.obj, heap |-> c.heap, flip |-> TRUE, exc |-> "none"]
    ELSE IF g.kind # PvUnstructured
    THEN LET w == wrap(g) IN
         IF w.raised
         THEN [grid |-> g, heap |-> h, flip |-> FALSE, exc |-> w.exc]
         ELSE IF w.obj.kind # PvUnstructured
         THEN [grid |-> w.obj, heap |-> h, flip |-> FALSE, exc |-> "TypeError"]
         ELSE [grid |-> w.obj, heap |-> h, flip |-> FALSE, exc |-> "none"]
    ELSE [grid |-> g, heap |-> h, flip |-> FALSE, exc |-> "none"]

\* lines 50-56 with single precision as the fallback
KernelVariant_FloatFallback(dtype) ==
    IF dtype = "float64" THEN "cell_quality" ELSE "cell_quality_float"

\* lines 50-56: which kernel variant a point dtype goes to
KernelVariant(dtype) ==
    IF dtype = "float64" THEN "cell_quality"
    ELSE IF dtype = "float32" THEN "cell_quality_float"
    ELSE "cell_quality"

\* line 55 writing the converted points back into the grid's own array
Upcast_InPlace(h, addr) ==
    [heap |-> [h EXCEPT ![addr] = astype(@, "float64")], arg |-> addr]

\* line 55: points = points.astype(np.float64) binds the local name to a
\* new array
Upcast(h, addr) ==
    [heap |-> Append(h, astype(h[addr], "float64")), arg |-> Len(h) + 1]

\* lines 50-56: the points array handed to the kernel
KernelPoints(h, addr) ==
    IF h[addr].dtype = "float64" THEN [heap |-> h, arg |-> addr]
    ELSE IF h[addr].dtype = "float32" THEN [heap |-> h, arg |-> addr]
    ELSE Upcast(h, addr)

\* a try/except around the kernel call
Propagates_Swallowed(outcome) == FALSE

\* an exception raised inside the kernel call leaves quality(): there is
\* no try/except around lines 51, 53, 56
Propagates(outcome) == outcome.raised

\* line 59 with the mask left out
MaskedValues_NoMask(q, types) == q

\* line 59 with the mask inverted
MaskedValues_Inverted(q, types) ==
    [i \in 1..Len(q) |-> IF types[i] # VTK_EMPTY_CELL THEN Scale ELSE q[i]]

\* line 59: qual[grid.celltypes == 0] = 1
MaskedValues(q, types) ==
    [i \in 1..Len(q) |-> IF types[i] = VTK_EMPTY_CELL THEN Scale ELSE q[i]]

\* line 61: -qual
Negated(q) == [i \in 1..Len(q) |-> -q[i]]

\* lines 60-62 with the sign flip left out
ReturnedValues_NoFlip(q, flipped) == q

\* lines 60-62: the values handed back
ReturnedValues(q, flipped) == IF flipped THEN Negated(q) ELSE q

\* lines 38-45
Coerce ==
    /\ pc = "start"
    /\ UNCHANGED <<input, points, qual, ret, calls, before>>
    /\ LET c == Coerced(grid, heap) IN
       /\ grid' = c.grid
       /\ heap' = c.heap
       /\ flip' = c.flip
       /\ exc' = c.exc
       /\ pc' = IF c.exc = "none" THEN "coerced" ELSE "raised"

\* lines 47-56: read the arrays, pick the kernel by point dtype (upcasting
\* the points when the dtype is neither float), call it once
Dispatch ==
    /\ pc = "coerced"
    /\ UNCHANGED <<input, grid, flip, ret, before>>
    /\ LET celltypes == heap[grid.celltypes].data
           offset    == vtk_cell_info(grid)
           variant   == KernelVariant(heap[grid.points].dtype)
           kp        == KernelPoints(heap, grid.points)
       IN  \E o \in KernelOutcomes(celltypes, kp.heap[kp.arg].data) :
             /\ points' = kp.arg
             /\ calls' = Append(calls, [variant |-> variant, points |-> kp.arg,
                                        offset |-> offset, raised |-> o.raised,
                                        out |-> o.out])
             /\ IF Propagates(o)
                THEN /\ heap' = kp.heap
                     /\ qual' = qual
                     /\ exc' = "KernelError"
                     /\ pc' = "raised"
                ELSE /\ heap' = Append(kp.heap,
                                   Array(IF variant = "cell_quality" THEN "float64" ELSE "float32",
                                         o.out))
                     /\ qual' = Len(kp.heap) + 1
                     /\ exc' = exc
                     /\ pc' = "computed"

\* lines 58-59: set the quality of null cells to 1, in place in qual
MaskNull ==
    /\ pc = "computed"
    /\ UNCHANGED <<input, grid, flip, points, qual, ret, exc, calls, before>>
    /\ heap' = [heap EXCEPT ![qual] =
                  Array(@.dtype, MaskedValues(@.data, heap[grid.celltypes].data))]
    /\ pc' = "masked"

\* lines 60-62: return -qual (a new array) for a flattened structured grid,
\* qual itself otherwise
Return ==
    /\ pc = "masked"
    /\ UNCHANGED <<input, grid, flip, points, qual, exc, calls, before>>
    /\ IF flip
       THEN /\ heap' = Append(heap, Array(heap[qual].dtype,
                                          ReturnedValues(heap[qual].data, flip)))
            /\ ret' = Len(heap) + 1
       ELSE /\ heap' = heap
            /\ ret' = qual
    /\ pc' = "done"

Next == Coerce \/ Dispatch \/ MaskNull \/ Return

Spec == Init /\ [][Next]_vars

\* ------------------------------------------------------- reading a state
\* the cell types of the grid the kernel ran on
Types == heap[grid.celltypes].data
\* the geometry classes of its cells
Geometry == heap[grid.points].data
\* the values quality() returned
Result == heap[ret].data
\* what the kernel returned, before any post-processing
RawKernel == calls[1].out
\* the post-processed kernel value of each cell
Post == [i \in 1..Len(RawKernel) |-> IF Types[i] = VTK_EMPTY_CELL THEN Scale ELSE RawKernel[i]]
\* the input went through pv.wrap
Wrapped == input.kind \notin {PvStructured, PvUnstructured}
\* the kernel was reached
ReachedKernel == pc \in {"computed", "masked", "done"} \/ exc = "KernelError"
\* some cell of the input carries a code outside the supported set
HasUnsupported ==
    /\ input.kind \in GridKinds
    /\ \E i \in 1..Len(before.arrays[input.celltypes].data) :
          before.arrays[input.celltypes].data[i] \notin SupportedTypes

\* ------------------------------------------------------------ the claims

\* C1: for every accepted input, structured or unstructured, the returned
\* value of every cell whose topology code is 0 is exactly 1.
C1_NullCellsReturnOne ==
    pc = "done" =>
        \A i \in 1..Len(Types) : Types[i] = VTK_EMPTY_CELL => Result[i] = Scale

\* C2: the returned values are the negated post-processed kernel values
\* exactly when the input was a pyvista StructuredGrid that was flattened;
\* for any other input no entry is negated.
C2_NegatedIffStructured ==
    pc = "done" =>
        /\ flip = (input.kind = PvStructured)
        /\ Len(Result) = Len(Post)
        /\ \A i \in 1..Len(Post) :
              Result[i] = IF input.kind = PvStructured THEN -Post[i] ELSE Post[i]

C2_Witness ==
    /\ pc = "done"
    /\ input.kind = PvStructured
    /\ \E i \in 1..Len(Post) : Post[i] # 0 /\ Result[i] = -Post[i]

\* C3: a call that reaches the kernel invokes exactly one variant exactly
\* once: float64 points go unchanged to the double kernel, float32 points
\* unchanged to the single kernel, any other dtype is converted to float64
\* and goes to the double kernel; the points are never narrowed.
C3_OneKernelByPrecision ==
    /\ Len(calls) <= 1
    /\ ~ReachedKernel => calls = <<>>
    /\ ReachedKernel =>
          /\ Len(calls) = 1
          /\ LET c   == calls[1]
                 src == heap[grid.points]
                 arg == heap[c.points]
             IN  /\ src.dtype = "float64" =>
                        c.variant = "cell_quality" /\ c.points = grid.points
                 /\ src.dtype = "float32" =>
                        c.variant = "cell_quality_float" /\ c.points = grid.points
                 /\ src.dtype \notin {"float64", "float32"} =>
                        /\ c.variant = "cell_quality"
                        /\ c.points # grid.points
                        /\ arg.dtype = "float64"
                        /\ arg.data = src.data
                 /\ Bits(arg.dtype) >= Bits(src.dtype)
                 /\ c.variant = "cell_quality" <=> arg.dtype = "float64"

C3_Witness ==
    /\ pc = "done"
    /\ heap[grid.points].dtype = "int64"
    /\ calls[1].variant = "cell_quality"
    /\ heap[calls[1].points].dtype = "float64"
    /\ Len(Result) > 0

\* C4: an input that is neither a pyvista grid nor something that wraps to
\* an UnstructuredGrid ends the call with a TypeError, no kernel invoked.
C4_NonGridTypeError ==
    (input.kind \notin {PvStructured, PvUnstructured, "vtkUnstructuredGrid"} /\ pc # "start") =>
        /\ pc = "raised"
        /\ exc = "TypeError"
        /\ calls = <<>>

\* C5: when a cell carries a topology code outside the supported set the
\* call can only end with an error; no scores, partial or zero-filled, are
\* ever produced or returned.
C5_UnsupportedFailsWhole ==
    HasUnsupported =>
        /\ ret = 0
        /\ qual = 0
        /\ pc \in {"start", "coerced", "raised"}
        /\ pc = "raised" => exc # "none"
        /\ (~ ENABLED Next) => pc = "raised"

C5_Witness ==
    /\ HasUnsupported
    /\ pc = "raised"
    /\ exc = "KernelError"
    /\ Len(calls) = 1
    /\ \E i \in 1..Len(Types) : Types[i] \in SupportedTypes

\* C6: whether the call succeeds or fails, the caller's grid is as it was
\* before: its kind and its points (values and dtype), cell types and
\* offsets arrays.
C6_InputUnchanged ==
    /\ input = before.obj
    /\ Len(heap) >= Len(before.arrays)
    /\ \A a \in 1..Len(before.arrays) : heap[a] = before.arrays[a]

C6_Witness ==
    /\ pc = "done"
    /\ input.kind = PvUnstructured
    /\ before.arrays[input.points].dtype = "int64"
    /\ \E i \in 1..Len(Types) : Types[i] = VTK_EMPTY_CELL /\ RawKernel[i] # Result[i]

\* C7: for an unstructured input on which the call succeeds the result has
\* one entry per cell, in cell order, and the entry of every cell whose
\* code is not 0 is the kernel's value for that cell.
C7_OnePerCellKernelValue ==
    (pc = "done" /\ input.kind \in {PvUnstructured, "vtkUnstructuredGrid"}) =>
        /\ Len(Result) = Len(before.arrays[input.celltypes].data)
        /\ \A i \in 1..Len(Result) :
              before.arrays[input.celltypes].data[i] # VTK_EMPTY_CELL =>
                  Result[i] = RawKernel[i]

C7_Witness ==
    /\ pc = "done"
    /\ input.kind = PvUnstructured
    /\ \E i \in 1..Len(Result) :
          Types[i] # VTK_EMPTY_CELL /\ Result[i] = RawKernel[i] /\ RawKernel[i] # Scale
    /\ \E j \in 1..Len(Result) :
          Types[j] = VTK_EMPTY_CELL /\ Result[j] # RawKernel[j]

\* C8: every returned value lies in [-1, 1], structured inputs and null
\* cells included.
C8_ResultInRange ==
    pc = "done" =>
        \A i \in 1..Len(Result) : -Scale <= Result[i] /\ Result[i] <= Scale

C8_Witness ==
    /\ pc = "done"
    /\ flip
    /\ \E i \in 1..Len(Result) :
          Types[i] = VTK_EMPTY_CELL /\ RawKernel[i] > Scale /\ Result[i] = -Scale
    /\ \E j \in 1..Len(Result) : Result[j] = -(Scale \div 2)

C10_WrappedNeverFlipped ==
    /\ flip => input.kind = PvStructured
    /\ grid.points # input.points => input.kind = PvStructured
    /\ (Wrapped /\ pc # "start" /\ ~wrap(input).raised
               /\ wrap(input).obj.kind # PvUnstructured) =>
          /\ pc = "raised"
          /\ exc = "TypeError"
          /\ heap = before.arrays
          /\ calls = <<>>
    /\ (Wrapped /\ pc = "done") => Result = Post

C10_Witness ==
    /\ input.kind = "vtkStructuredGrid"
    /\ pc = "raised"
    /\ exc = "TypeError"
    /\ Len(before.arrays[input.celltypes].data) > 0
====
